---- MODULE Spec2Model ----
(***************************************************************************)
(* A model of dv_flow/libyosys/synth.py: the yosys task implementations    *)
(* Synth, SynthIce40, SynthXilinx, SynthLattice, SynthGowin, FormalPrepare *)
(* and Script, with their shared helpers _collect_rtl and _write_read_cmds.*)
(*                                                                         *)
(* Representation.                                                         *)
(*  - A path string is the sequence of its "/"-separated segments: "" is   *)
(*    <<>>, "/d/top.sv" is <<"", "d", "top.sv">>, "top.sv" is <<"top.sv">>.*)
(*    os.path.join and str.strip are computed on that form.                *)
(*  - A line written to the script is a record [words, path]: the          *)
(*    space-separated words of the line followed by the path that ends it  *)
(*    (NoPath when the line names none). Line renders it as the text.      *)
(*  - None, "" and False are all falsy in the code's tests; a string       *)
(*    parameter that is None or empty is "", a flag is a BOOLEAN.          *)
(***************************************************************************)
EXTENDS Integers, Sequences, FiniteSets, TLC

VARIABLES
    inputs,     \* _collect_rtl: the input.inputs list handed to the classifier
    collected,  \* _collect_rtl: its return value, or NotCollected
    req,        \* per invocation: the task's `input` (name, rundir, inputs, params)
    pc,         \* per invocation: position in the coroutine
    fs,         \* the filesystem: a set of files [path, writer, content]
    cmd,        \* per invocation: the argument vector given to ctxt.exec
    logfile,    \* per invocation: the logfile= argument given to ctxt.exec
    execCalls,  \* per invocation: number of ctxt.exec calls made
    ranScript,  \* per invocation: the script content the tool process read
    status,     \* per invocation: the value ctxt.exec returned
    result      \* per invocation: the TaskDataResult returned

vars == <<inputs, collected, req, pc, fs, cmd, logfile, execCalls, ranScript,
          status, result>>

collectVars == <<inputs, collected>>
taskVars == <<req, pc, fs, cmd, logfile, execCalls, ranScript, status, result>>

(***************************************************************************)
(* Bounds of the model.                                                    *)
(***************************************************************************)
\* longest input.inputs list handed to _collect_rtl on its own
MaxInputs == 2
\* longest input.inputs list handed to a task
MaxTaskInputs == 2
\* longest params.args / params.script list
MaxArgs == 1

(***************************************************************************)
(* Paths: os.path.join, str.strip                                          *)
(***************************************************************************)
NoPath == <<>>

IsAbs(p) == Len(p) >= 2 /\ p[1] = ""

EndsWithSep(p) == Len(p) >= 2 /\ p[Len(p)] = ""

\* os.path.join(a, b) for two components
join(a, b) ==
    IF IsAbs(b) THEN b
    ELSE IF a = <<>> THEN b
    ELSE IF EndsWithSep(a) THEN (IF b = <<>> THEN a ELSE SubSeq(a, 1, Len(a) - 1) \o b)
    ELSE a \o (IF b = <<>> THEN <<"">> ELSE b)

WhitespaceNames == {" "}

\* s.strip() is falsy: s is empty or whitespace only
StripIsEmpty(p) == p = <<>> \/ (Len(p) = 1 /\ p[1] \in WhitespaceNames)

RECURSIVE PathStr(_)
\* the path as the text written to the script
PathStr(p) ==
    IF p = <<>> THEN ""
    ELSE IF Len(p) = 1 THEN p[1]
    ELSE p[1] \o "/" \o PathStr(Tail(p))

(***************************************************************************)
(* _collect_rtl                                                            *)
(***************************************************************************)
NotCollected == [sources |-> <<>>, incdirs |-> <<>>, liberty_files |-> <<>>, done |-> FALSE]

\* CollectOne with the library fallback not guarded by `not fs.files`
CollectOneBaseAlways(acc, f) ==
    IF f.type # "std.FileSet" THEN acc
    ELSE IF f.filetype \in {"verilogSource", "systemVerilogSource"} THEN
        [acc EXCEPT
            !.sources = @ \o [k \in 1..Len(f.files) |->
                                [path |-> join(f.basedir, f.files[k]),
                                 is_sv |-> (f.filetype = "systemVerilogSource")]],
            !.incdirs = @ \o [k \in 1..Len(f.incdirs) |-> join(f.basedir, f.incdirs[k])]]
    ELSE IF f.filetype = "verilogIncDir" THEN
        IF ~StripIsEmpty(f.basedir)
        THEN [acc EXCEPT !.incdirs = Append(@, f.basedir)]
        ELSE acc
    ELSE IF f.filetype \in {"verilogInclude", "systemVerilogInclude"} THEN
        [acc EXCEPT
            !.incdirs = @ \o [k \in 1..Len(f.incdirs) |-> join(f.basedir, f.incdirs[k])]]
    ELSE IF f.filetype = "libertyLib" THEN
        LET withFiles == acc.liberty_files \o
                            [k \in 1..Len(f.files) |-> join(f.basedir, f.files[k])]
        IN  [acc EXCEPT
                !.liberty_files =
                    IF ~StripIsEmpty(f.basedir)
                    THEN Append(withFiles, f.basedir)
                    ELSE withFiles]
    ELSE acc

\* one iteration of the loop over input.inputs: acc after processing fileset f
CollectOne(acc, f) ==
    IF f.type # "std.FileSet" THEN acc
    ELSE IF f.filetype \in {"verilogSource", "systemVerilogSource"} THEN
        [acc EXCEPT
            !.sources = @ \o [k \in 1..Len(f.files) |->
                                [path |-> join(f.basedir, f.files[k]),
                                 is_sv |-> (f.filetype = "systemVerilogSource")]],
            !.incdirs = @ \o [k \in 1..Len(f.incdirs) |-> join(f.basedir, f.incdirs[k])]]
    ELSE IF f.filetype = "verilogIncDir" THEN
        IF ~StripIsEmpty(f.basedir)
        THEN [acc EXCEPT !.incdirs = Append(@, f.basedir)]
        ELSE acc
    ELSE IF f.filetype \in {"verilogInclude", "systemVerilogInclude"} THEN
        [acc EXCEPT
            !.incdirs = @ \o [k \in 1..Len(f.incdirs) |-> join(f.basedir, f.incdirs[k])]]
    ELSE IF f.filetype = "libertyLib" THEN
        LET withFiles == acc.liberty_files \o
                            [k \in 1..Len(f.files) |-> join(f.basedir, f.files[k])]
        IN  [acc EXCEPT
                !.liberty_files =
                    IF f.files = <<>> /\ ~StripIsEmpty(f.basedir)
                    THEN Append(withFiles, f.basedir)
                    ELSE withFiles]
    ELSE acc

RECURSIVE CollectFrom(_, _, _)
CollectFrom(ins, k, acc) ==
    IF k > Len(ins) THEN acc
    ELSE CollectFrom(ins, k + 1, CollectOne(acc, ins[k]))

_collect_rtl(ins) ==
    CollectFrom(ins, 1, [sources |-> <<>>, incdirs |-> <<>>, liberty_files |-> <<>>])

(***************************************************************************)
(* The scripts: _write_read_cmds and the fp.write calls of each task       *)
(***************************************************************************)
\* one fp.write of a line: its words, then the path that ends it
D(words, path) == [words |-> words, path |-> path]

\* fp.write(arg + "\n") of a caller-supplied line
Verbatim(text) == D(<<text>>, NoPath)

\* `x or default` on a string parameter
Or(x, default) == IF x = "" THEN default ELSE x

\* the words appended to a command when cond is truthy
Opt(cond, words) == IF cond THEN words ELSE <<>>

_write_read_cmds(sources, incdirs) ==
    [k \in 1..Len(incdirs) |-> D(<<"read_verilog", "-incdir">>, incdirs[k])]
    \o [k \in 1..Len(sources) |->
            D(<<"read_verilog">> \o Opt(sources[k].is_sv, <<"-sv">>), sources[k].path)]

\* for lib in liberty_files: fp.write(f"read_liberty -lib {lib}\n")
ReadLiberty(liberty_files) ==
    [k \in 1..Len(liberty_files) |-> D(<<"read_liberty", "-lib">>, liberty_files[k])]

\* for arg in extra_args: fp.write(arg + "\n")
ExtraArgs(args) == [k \in 1..Len(args) |-> Verbatim(args[k])]

\* output_format of the netlist tasks (Script keeps "" as "no output")
OutputFormat(input) ==
    IF input.variant = "Script" THEN input.params.output_format
    ELSE Or(input.params.output_format, "json")

\* out_file: f"netlist.{output_format}", or "model.smt2"
OutFile(input) ==
    IF input.variant = "FormalPrepare" THEN "model.smt2"
    ELSE "netlist." \o OutputFormat(input)

\* out_path = os.path.join(input.rundir, out_file)
OutPath(input) == join(input.rundir, <<OutFile(input)>>)

\* the script's file name in each task
ScriptName(variant) ==
    CASE variant = "FormalPrepare" -> "formal.ys"
      [] variant = "Script" -> "user.ys"
      [] OTHER -> "synth.ys"

\* ScriptPath without the join on the run directory
ScriptPathBare(input) == <<ScriptName(input.variant)>>

\* script_path = os.path.join(input.rundir, "synth.ys")
ScriptPath(input) == join(input.rundir, <<ScriptName(input.variant)>>)

\* the if/elif chain on output_format that writes the netlist (generic task)
SynthWrite(output_format, out_path) ==
    IF output_format = "json" THEN <<D(<<"write_json">>, out_path)>>
    ELSE IF output_format = "verilog" THEN <<D(<<"write_verilog">>, out_path)>>
    ELSE IF output_format = "blif" THEN <<D(<<"write_blif">>, out_path)>>
    ELSE IF output_format = "edif" THEN <<D(<<"write_edif">>, out_path)>>
    ELSE IF output_format = "rtlil" THEN <<D(<<"write_rtlil">>, out_path)>>
    ELSE <<>>

\* SynthScript mapping to the last library instead of the first
SynthScriptLastLib(input) ==
    LET c == _collect_rtl(input.inputs)
        p == input.params
        liberty_files == c.liberty_files
        synth_cmd == <<"synth">>
                     \o Opt(p.top # "", <<"-top", p.top>>)
                     \o Opt(p.flatten, <<"-flatten">>)
                     \o Opt(p.nofsm, <<"-nofsm">>)
                     \o Opt(p.noabc, <<"-noabc">>)
                     \o Opt(p.retime, <<"-retime">>)
    IN  _write_read_cmds(c.sources, c.incdirs)
        \o ReadLiberty(liberty_files)
        \o <<D(synth_cmd, NoPath)>>
        \o (IF liberty_files # <<>>
            THEN <<D(<<"dfflibmap", "-liberty">>, liberty_files[Len(liberty_files)]),
                   D(<<"abc", "-liberty">>, liberty_files[Len(liberty_files)])>>
            ELSE <<>>)
        \o <<D(<<"opt_clean">>, NoPath)>>
        \o (IF liberty_files # <<>>
            THEN <<D(<<"stat", "-liberty">>, liberty_files[1])>>
            ELSE <<D(<<"stat">>, NoPath)>>)
        \o SynthWrite(OutputFormat(input), OutPath(input))
        \o ExtraArgs(p.args)

\* the body of Synth's `with open(script_path, "w") as fp:` block
SynthScript(input) ==
    LET c == _collect_rtl(input.inputs)
        p == input.params
        liberty_files == c.liberty_files
        synth_cmd == <<"synth">>
                     \o Opt(p.top # "", <<"-top", p.top>>)
                     \o Opt(p.flatten, <<"-flatten">>)
                     \o Opt(p.nofsm, <<"-nofsm">>)
                     \o Opt(p.noabc, <<"-noabc">>)
                     \o Opt(p.retime, <<"-retime">>)
    IN  _write_read_cmds(c.sources, c.incdirs)
        \o ReadLiberty(liberty_files)
        \o <<D(synth_cmd, NoPath)>>
        \o (IF liberty_files # <<>>
            THEN <<D(<<"dfflibmap", "-liberty">>, liberty_files[1]),
                   D(<<"abc", "-liberty">>, liberty_files[1])>>
            ELSE <<>>)
        \o <<D(<<"opt_clean">>, NoPath)>>
        \o (IF liberty_files # <<>>
            THEN <<D(<<"stat", "-liberty">>, liberty_files[1])>>
            ELSE <<D(<<"stat">>, NoPath)>>)
        \o SynthWrite(OutputFormat(input), OutPath(input))
        \o ExtraArgs(p.args)

\* synth_cmd plus the embedded write flag of a target-family task: the
\* if/elif chain over the formats the family's synth command can write
Embedded(synth_cmd, output_format, out_path, flagOf) ==
    IF output_format \in DOMAIN flagOf
    THEN D(synth_cmd \o <<flagOf[output_format]>>, out_path)
    ELSE D(synth_cmd, NoPath)

Ice40WriteFlag == [json |-> "-json", blif |-> "-blif", edif |-> "-edif"]

SynthIce40Script(input) ==
    LET c == _collect_rtl(input.inputs)
        p == input.params
        synth_cmd == <<"synth_ice40", "-device", Or(p.device, "hx")>>
                     \o Opt(p.top # "", <<"-top", p.top>>)
                     \o Opt(p.dff, <<"-dff">>)
                     \o Opt(p.retime, <<"-retime">>)
                     \o Opt(p.nocarry, <<"-nocarry">>)
                     \o Opt(p.nobram, <<"-nobram">>)
                     \o Opt(p.dsp, <<"-dsp">>)
                     \o Opt(p.abc9, <<"-abc9">>)
    IN  _write_read_cmds(c.sources, c.incdirs)
        \o <<Embedded(synth_cmd, OutputFormat(input), OutPath(input), Ice40WriteFlag)>>
        \o ExtraArgs(p.args)

XilinxWriteFlag == [json |-> "-json", edif |-> "-edif", blif |-> "-blif"]

\* SynthXilinxScript with the tests of noiopad and noclkbuf exchanged
SynthXilinxScriptSwapped(input) ==
    LET c == _collect_rtl(input.inputs)
        p == input.params
        synth_cmd == <<"synth_xilinx", "-family", Or(p.family, "xc7")>>
                     \o Opt(p.top # "", <<"-top", p.top>>)
                     \o Opt(p.flatten, <<"-flatten">>)
                     \o Opt(p.dff, <<"-dff">>)
                     \o Opt(p.retime, <<"-retime">>)
                     \o Opt(p.nobram, <<"-nobram">>)
                     \o Opt(p.nodsp, <<"-nodsp">>)
                     \o Opt(p.noclkbuf, <<"-noiopad">>)
                     \o Opt(p.noiopad, <<"-noclkbuf">>)
                     \o Opt(p.abc9, <<"-abc9">>)
    IN  _write_read_cmds(c.sources, c.incdirs)
        \o <<Embedded(synth_cmd, OutputFormat(input), OutPath(input), XilinxWriteFlag)>>
        \o ExtraArgs(p.args)

SynthXilinxScript(input) ==
    LET c == _collect_rtl(input.inputs)
        p == input.params
        synth_cmd == <<"synth_xilinx", "-family", Or(p.family, "xc7")>>
                     \o Opt(p.top # "", <<"-top", p.top>>)
                     \o Opt(p.flatten, <<"-flatten">>)
                     \o Opt(p.dff, <<"-dff">>)
                     \o Opt(p.retime, <<"-retime">>)
                     \o Opt(p.nobram, <<"-nobram">>)
                     \o Opt(p.nodsp, <<"-nodsp">>)
                     \o Opt(p.noiopad, <<"-noiopad">>)
                     \o Opt(p.noclkbuf, <<"-noclkbuf">>)
                     \o Opt(p.abc9, <<"-abc9">>)
    IN  _write_read_cmds(c.sources, c.incdirs)
        \o <<Embedded(synth_cmd, OutputFormat(input), OutPath(input), XilinxWriteFlag)>>
        \o ExtraArgs(p.args)

LatticeWriteFlag == [json |-> "-json", edif |-> "-edif"]

SynthLatticeScript(input) ==
    LET c == _collect_rtl(input.inputs)
        p == input.params
        synth_cmd == <<"synth_lattice", "-family", Or(p.family, "ecp5")>>
                     \o Opt(p.top # "", <<"-top", p.top>>)
                     \o Opt(p.dff, <<"-dff">>)
                     \o Opt(p.retime, <<"-retime">>)
    IN  _write_read_cmds(c.sources, c.incdirs)
        \o <<Embedded(synth_cmd, OutputFormat(input), OutPath(input), LatticeWriteFlag)>>
        \o ExtraArgs(p.args)

\* GowinWriteFlag with an -edif branch the gowin command does not have
GowinWriteFlagEdif == [json |-> "-json", verilog |-> "-vout", edif |-> "-edif"]

GowinWriteFlag == [json |-> "-json", verilog |-> "-vout"]

SynthGowinScript(input) ==
    LET c == _collect_rtl(input.inputs)
        p == input.params
        synth_cmd == <<"synth_gowin">> \o Opt(p.top # "", <<"-top", p.top>>)
    IN  _write_read_cmds(c.sources, c.incdirs)
        \o <<Embedded(synth_cmd, OutputFormat(input), OutPath(input), GowinWriteFlag)>>
        \o ExtraArgs(p.args)

FormalPrepareScript(input) ==
    LET c == _collect_rtl(input.inputs)
        p == input.params
        smt2_cmd == <<"write_smt2">>
                    \o Opt(p.bv, <<"-bv">>)
                    \o Opt(p.mem, <<"-mem">>)
                    \o Opt(p.wires, <<"-wires">>)
    IN  [k \in 1..Len(c.incdirs) |-> D(<<"read_verilog", "-incdir">>, c.incdirs[k])]
        \o [k \in 1..Len(c.sources) |->
                D(<<"read_verilog", "-formal">> \o Opt(c.sources[k].is_sv, <<"-sv">>),
                  c.sources[k].path)]
        \o <<IF p.top # "" THEN D(<<"hierarchy", "-top", p.top>>, NoPath)
                           ELSE D(<<"hierarchy", "-auto-top">>, NoPath)>>
        \o <<D(<<"proc">>, NoPath), D(<<"opt">>, NoPath),
             D(<<"memory", "-nordff", "-nomap">>, NoPath), D(<<"opt", "-fast">>, NoPath)>>
        \o <<D(smt2_cmd, OutPath(input))>>
        \o ExtraArgs(p.args)

\* params.script is the list of the lines of script_content
ScriptScript(input) ==
    LET c == _collect_rtl(input.inputs)
        p == input.params
    IN  (IF p.read_rtl
         THEN _write_read_cmds(c.sources, c.incdirs) \o ReadLiberty(c.liberty_files)
         ELSE <<>>)
        \o [k \in 1..Len(p.script) |-> Verbatim(p.script[k])]

\* what the task writes to its script file
ScriptOf(input) ==
    CASE input.variant = "Synth" -> SynthScript(input)
      [] input.variant = "SynthIce40" -> SynthIce40Script(input)
      [] input.variant = "SynthXilinx" -> SynthXilinxScript(input)
      [] input.variant = "SynthLattice" -> SynthLatticeScript(input)
      [] input.variant = "SynthGowin" -> SynthGowinScript(input)
      [] input.variant = "FormalPrepare" -> FormalPrepareScript(input)
      [] input.variant = "Script" -> ScriptScript(input)

RECURSIVE JoinWords(_)
JoinWords(ws) ==
    IF ws = <<>> THEN ""
    ELSE IF Len(ws) = 1 THEN ws[1]
    ELSE ws[1] \o " " \o JoinWords(Tail(ws))

\* the text of a script line, without its newline
Line(d) == IF d.path = NoPath THEN JoinWords(d.words)
           ELSE JoinWords(d.words) \o " " \o PathStr(d.path)

(***************************************************************************)
(* The result: the FileSet each task appends to output                     *)
(***************************************************************************)
\* os.path.isfile(p)
isfile(files, p) == \E f \in files : f.path = p

\* TopAttr without its `if top` test
TopAttrAlways(top) == <<"top=" \o top>>

\* the `([f"top={top}"] if top else [])` tail of every attributes list
TopAttr(top) == IF top # "" THEN <<"top=" \o top>> ELSE <<>>

\* attributes= of the FileSet each task builds
Attributes(input) ==
    LET p == input.params IN
    CASE input.variant = "Synth" ->
            <<"format=" \o OutputFormat(input)>> \o TopAttr(p.top)
      [] input.variant = "SynthIce40" ->
            <<"format=" \o OutputFormat(input), "target=ice40",
              "device=" \o Or(p.device, "hx")>> \o TopAttr(p.top)
      [] input.variant = "SynthXilinx" ->
            <<"format=" \o OutputFormat(input), "target=xilinx",
              "family=" \o Or(p.family, "xc7")>> \o TopAttr(p.top)
      [] input.variant = "SynthLattice" ->
            <<"format=" \o OutputFormat(input), "target=lattice",
              "family=" \o Or(p.family, "ecp5")>> \o TopAttr(p.top)
      [] input.variant = "SynthGowin" ->
            <<"format=" \o OutputFormat(input), "target=gowin">> \o TopAttr(p.top)
      [] input.variant = "FormalPrepare" -> TopAttr(p.top)
      [] input.variant = "Script" ->
            <<"format=" \o OutputFormat(input)>> \o TopAttr(p.top)

\* FileSet(src=input.name, filetype=..., basedir=input.rundir, files=[out_file], ...)
OutFileSet(input) ==
    [src |-> input.name,
     filetype |-> IF input.variant = "FormalPrepare" THEN "yosysSMT2" ELSE "yosysNetlist",
     basedir |-> input.rundir,
     files |-> <<OutFile(input)>>,
     attributes |-> Attributes(input)]

\* Produced without the os.path.isfile test
ProducedNoFileTest(input, st, files) ==
    IF input.variant = "Script"
    THEN st = 0 /\ input.params.output_format # ""
    ELSE st = 0

\* the test that guards output.append(...)
Produced(input, st, files) ==
    IF input.variant = "Script"
    THEN st = 0 /\ input.params.output_format # "" /\ isfile(files, OutPath(input))
    ELSE st = 0 /\ isfile(files, OutPath(input))

\* output = []; if ...: output.append(FileSet(...))
Output(input, st, files) ==
    IF Produced(input, st, files) THEN <<OutFileSet(input)>> ELSE <<>>

\* ResultStatus reporting every failure as 1
ResultStatusFlattened(st) == IF st = 0 THEN 0 ELSE 1

\* the status= of the returned TaskDataResult
ResultStatus(st) == st

\* log file name of each task
LogName(variant) ==
    CASE variant = "FormalPrepare" -> "formal.log"
      [] variant = "Script" -> "script.log"
      [] OTHER -> "synth.log"

\* ExecCmd naming the script by its file name alone
ExecCmdBareScript(input) ==
    <<<<"yosys">>, <<"-l">>, <<LogName(input.variant)>>, <<ScriptName(input.variant)>>>>

\* cmd = ["yosys", "-l", "synth.log", script_path], each argument in path form
ExecCmd(input) ==
    <<<<"yosys">>, <<"-l">>, <<LogName(input.variant)>>, ScriptPath(input)>>

\* logfile="synth.log"
ExecLogfile(input) == <<LogName(input.variant)>>

(***************************************************************************)
(* The filesystem and the external tool                                    *)
(***************************************************************************)
\* open(path, "w"), the writes, and the close that ends the `with` block
WriteFile(files, path, who, content) ==
    {f \in files : f.path # path} \cup {[path |-> path, writer |-> who, content |-> content]}

ReadFile(files, path) == (CHOOSE f \in files : f.path = path).content

WriterCmds ==
    {"write_json", "write_verilog", "write_blif", "write_edif", "write_rtlil",
     "write_smt2", "synth_ice40", "synth_xilinx", "synth_lattice", "synth_gowin"}

\* the files the tool is told to write by the generated lines of a script
WriteTargets(script) ==
    {script[k].path : k \in {j \in 1..Len(script) :
        script[j].path # NoPath /\ script[j].words[1] \in WriterCmds}}

\* the caller's own lines: params.args, or params.script
CallerLines(input) ==
    IF input.variant = "Script" THEN input.params.script ELSE input.params.args

\* what a run of the tool may create: the files its script's write lines name
\* and, when the caller supplied lines of its own, the file the task looks for
MayCreate(input, script) ==
    WriteTargets(script)
    \cup (IF CallerLines(input) # <<>>
             /\ (input.variant = "Script" => input.params.output_format # "")
          THEN {OutPath(input)} ELSE {})

Statuses == {0, 1, 2}

RECURSIVE WriteAll(_, _, _)
WriteAll(files, paths, who) ==
    IF paths = {} THEN files
    ELSE LET p == CHOOSE x \in paths : TRUE
         IN  WriteAll(WriteFile(files, p, who, <<>>), paths \ {p}, who)

(***************************************************************************)
(* The inputs the model draws from                                         *)
(***************************************************************************)
SeqsUpTo(S, n) == UNION {[1..k -> S] : k \in 0..n}

FS(ft, basedir, files, incdirs) ==
    [type |-> "std.FileSet", filetype |-> ft, basedir |-> basedir,
     files |-> files, incdirs |-> incdirs]

SvTop == FS("systemVerilogSource", <<"", "d">>, << <<"top.sv">> >>, <<>>)
VSrc == FS("verilogSource", <<"", "d">>, << <<"a.v">>, <<"b.v">> >>, << <<"inc">> >>)
IncDir == FS("verilogIncDir", <<"", "d", "inc">>, <<>>, <<>>)
RelInc == FS("verilogInclude", <<"rel">>, <<>>, << <<"inc">> >>)
Libs == FS("libertyLib", <<"", "lib">>, << <<"x.lib">>, <<"y.lib">> >>, <<>>)
LibDir == FS("libertyLib", <<"", "lib", "cells.lib">>, <<>>, <<>>)
NoBase == FS("verilogSource", <<>>, << <<"top.v">> >>, <<>>)

\* the filesets a task is given
TaskFileSets == {SvTop, VSrc, IncDir, RelInc, Libs, LibDir, NoBase}

\* the filesets _collect_rtl is given on its own: every branch, taken and not
CollectFileSets ==
    TaskFileSets \cup
    {FS("verilogIncDir", <<" ">>, <<>>, <<>>),
     FS("systemVerilogInclude", <<"", "d">>, <<>>, << <<"inc">>, <<"inc">> >>),
     FS("libertyLib", <<>>, <<>>, <<>>),
     FS("verilogSource", <<"", "d", "">>, << <<"", "o", "z.v">>, <<"a.v">>, <<"a.v">> >>, <<>>),
     FS("cSource", <<"", "d">>, << <<"main.c">> >>, << <<"inc">> >>),
     [type |-> "std.Other", filetype |-> "verilogSource", basedir |-> <<"", "d">>,
      files |-> << <<"a.v">> >>, incdirs |-> << <<"inc">> >>]}

InputLists == SeqsUpTo(CollectFileSets, MaxInputs)

TaskInputLists == SeqsUpTo(TaskFileSets, MaxTaskInputs)

BaseInputs == <<SvTop>>

Tops == {"", "top"}

Formats == {"", "json", "verilog", "blif", "edif", "rtlil", "xyz"}

ArgLists == SeqsUpTo({"script extra.ys"}, MaxArgs)

ScriptBodies == SeqsUpTo({"script flow.ys"}, MaxArgs) \ {<<>>}

Variants ==
    {"Synth", "SynthIce40", "SynthXilinx", "SynthLattice", "SynthGowin",
     "FormalPrepare", "Script"}

\* input.params of each task. Every combination of the flags is taken with the
\* other parameters at their defaults, and every combination of the other
\* parameters with the flags off.
SynthParams ==
    {p \in [top : Tops, output_format : Formats, flatten : BOOLEAN, nofsm : BOOLEAN,
            noabc : BOOLEAN, retime : BOOLEAN, args : ArgLists] :
        \/ ~(p.flatten \/ p.nofsm \/ p.noabc \/ p.retime)
        \/ (p.output_format = "" /\ p.args = <<>>)}

SynthIce40Params ==
    {p \in [top : Tops, device : {"", "lp"}, output_format : Formats, dff : BOOLEAN,
            retime : BOOLEAN, nocarry : BOOLEAN, nobram : BOOLEAN, dsp : BOOLEAN,
            abc9 : BOOLEAN, args : ArgLists] :
        \/ ~(p.dff \/ p.retime \/ p.nocarry \/ p.nobram \/ p.dsp \/ p.abc9)
        \/ (p.output_format = "" /\ p.args = <<>> /\ p.device = "")}

SynthXilinxParams ==
    {p \in [top : Tops, family : {"", "xcup"}, output_format : Formats, flatten : BOOLEAN,
            dff : BOOLEAN, retime : BOOLEAN, nobram : BOOLEAN, nodsp : BOOLEAN,
            noiopad : BOOLEAN, noclkbuf : BOOLEAN, abc9 : BOOLEAN, args : ArgLists] :
        \/ ~(p.flatten \/ p.dff \/ p.retime \/ p.nobram \/ p.nodsp \/ p.noiopad
             \/ p.noclkbuf \/ p.abc9)
        \/ (p.output_format = "" /\ p.args = <<>> /\ p.family = "")}

SynthLatticeParams ==
    {p \in [top : Tops, family : {"", "xo2"}, output_format : Formats, dff : BOOLEAN,
            retime : BOOLEAN, args : ArgLists] :
        \/ ~(p.dff \/ p.retime)
        \/ (p.output_format = "" /\ p.args = <<>> /\ p.family = "")}

SynthGowinParams == [top : Tops, output_format : Formats, args : ArgLists]

FormalPrepareParams ==
    [top : Tops, bv : BOOLEAN, mem : BOOLEAN, wires : BOOLEAN, args : ArgLists]

ScriptParams ==
    [script : ScriptBodies, read_rtl : BOOLEAN, output_format : Formats, top : Tops]

ParamsOf(v) ==
    CASE v = "Synth" -> SynthParams
      [] v = "SynthIce40" -> SynthIce40Params
      [] v = "SynthXilinx" -> SynthXilinxParams
      [] v = "SynthLattice" -> SynthLatticeParams
      [] v = "SynthGowin" -> SynthGowinParams
      [] v = "FormalPrepare" -> FormalPrepareParams
      [] v = "Script" -> ScriptParams

\* the parameter sets with which the input lists are varied
PlainParamsOf(v) ==
    CASE v = "Synth" ->
            {p \in SynthParams : p.top = "top" /\ p.output_format = ""
                                 /\ ~(p.flatten \/ p.nofsm \/ p.noabc \/ p.retime)}
      [] v = "SynthIce40" ->
            {p \in SynthIce40Params : p.top = "top" /\ p.output_format = "" /\ p.device = ""
                /\ ~(p.dff \/ p.retime \/ p.nocarry \/ p.nobram \/ p.dsp \/ p.abc9)}
      [] v = "SynthXilinx" ->
            {p \in SynthXilinxParams : p.top = "top" /\ p.output_format = "" /\ p.family = ""
                /\ ~(p.flatten \/ p.dff \/ p.retime \/ p.nobram \/ p.nodsp \/ p.noiopad
                     \/ p.noclkbuf \/ p.abc9)}
      [] v = "SynthLattice" ->
            {p \in SynthLatticeParams : p.top = "top" /\ p.output_format = ""
                /\ p.family = "" /\ ~(p.dff \/ p.retime)}
      [] v = "SynthGowin" ->
            {p \in SynthGowinParams : p.top = "top" /\ p.output_format = ""}
      [] v = "FormalPrepare" ->
            {p \in FormalPrepareParams : p.top = "top" /\ ~(p.bv \/ p.mem \/ p.wires)}
      [] v = "Script" ->
            {p \in ScriptParams : p.top = "top" /\ p.output_format = "json"}

Request(v, rundir, ins, p) ==
    [variant |-> v, name |-> "task", rundir |-> rundir, inputs |-> ins, params |-> p]

RunDir == <<"", "run">>

\* the `input` objects a single task is run with
Requests ==
    UNION {{Request(v, RunDir, BaseInputs, p) : p \in ParamsOf(v)}
           \cup {Request(v, RunDir, x[1], x[2]) : x \in TaskInputLists \X PlainParamsOf(v)}
           : v \in Variants}

Invs == {1, 2}

ConcRunDirs(i) ==
    IF i = 1 THEN {<<"", "w", "r1">>} ELSE {<<"", "w", "r2">>, <<"", "w", "r1", "sub">>}

\* the `input` objects of two tasks run side by side
ConcRequests(i) ==
    UNION {{Request(v, x[1], BaseInputs, x[2]) : x \in ConcRunDirs(i) \X PlainParamsOf(v)}
           : v \in Variants}

\* a netlist left in the run directory by an earlier run
StaleFile == [path |-> join(RunDir, <<"netlist.edif">>), writer |-> 0, content |-> <<>>]

(***************************************************************************)
(* The state machine                                                       *)
(***************************************************************************)
NoReq == [variant |-> "none"]
NoResult == [status |-> -1, output |-> <<>>]

IdleTasks ==
    /\ req = [i \in Invs |-> NoReq]
    /\ pc = [i \in Invs |-> "idle"]
    /\ cmd = [i \in Invs |-> <<>>]
    /\ logfile = [i \in Invs |-> <<>>]
    /\ execCalls = [i \in Invs |-> 0]
    /\ ranScript = [i \in Invs |-> <<>>]
    /\ status = [i \in Invs |-> -1]
    /\ result = [i \in Invs |-> NoResult]

\* one task, in a run directory that may hold an earlier run's netlist
Init ==
    /\ inputs = <<>>
    /\ collected = NotCollected
    /\ IdleTasks
    /\ fs \in {{}, {StaleFile}}

\* two tasks, in empty run directories
InitConc ==
    /\ inputs = <<>>
    /\ collected = NotCollected
    /\ IdleTasks
    /\ fs = {}

\* _collect_rtl alone, on any input list
InitCollect ==
    /\ inputs \in InputLists
    /\ collected = NotCollected
    /\ IdleTasks
    /\ fs = {}

\* the call _collect_rtl(input)
Collect ==
    /\ ~collected.done
    /\ collected' = [sources |-> _collect_rtl(inputs).sources,
                     incdirs |-> _collect_rtl(inputs).incdirs,
                     liberty_files |-> _collect_rtl(inputs).liberty_files,
                     done |-> TRUE]
    /\ UNCHANGED <<inputs, taskVars>>

\* a task from its entry to the end of its `with open(script_path, "w")` block
Begin(i, input) ==
    /\ req' = [req EXCEPT ![i] = input]
    /\ fs' = WriteFile(fs, ScriptPath(input), i, ScriptOf(input))
    /\ pc' = [pc EXCEPT ![i] = "written"]
    /\ UNCHANGED <<collectVars, cmd, logfile, execCalls, ranScript, status, result>>

Synth(i, R) ==
    /\ pc[i] = "idle"
    /\ \E input \in R : input.variant = "Synth" /\ Begin(i, input)

SynthIce40(i, R) ==
    /\ pc[i] = "idle"
    /\ \E input \in R : input.variant = "SynthIce40" /\ Begin(i, input)

SynthXilinx(i, R) ==
    /\ pc[i] = "idle"
    /\ \E input \in R : input.variant = "SynthXilinx" /\ Begin(i, input)

SynthLattice(i, R) ==
    /\ pc[i] = "idle"
    /\ \E input \in R : input.variant = "SynthLattice" /\ Begin(i, input)

SynthGowin(i, R) ==
    /\ pc[i] = "idle"
    /\ \E input \in R : input.variant = "SynthGowin" /\ Begin(i, input)

FormalPrepare(i, R) ==
    /\ pc[i] = "idle"
    /\ \E input \in R : input.variant = "FormalPrepare" /\ Begin(i, input)

Script(i, R) ==
    /\ pc[i] = "idle"
    /\ \E input \in R : input.variant = "Script" /\ Begin(i, input)

\* cmd = [...]; the call ctxt.exec(cmd, logfile=...), up to its suspension
Exec(i) ==
    /\ pc[i] = "written"
    /\ cmd' = [cmd EXCEPT ![i] = ExecCmd(req[i])]
    /\ logfile' = [logfile EXCEPT ![i] = ExecLogfile(req[i])]
    /\ execCalls' = [execCalls EXCEPT ![i] = @ + 1]
    /\ pc' = [pc EXCEPT ![i] = "await"]
    /\ UNCHANGED <<collectVars, req, fs, ranScript, status, result>>

\* the tool process: it reads the script its last argument names, may create
\* files, and exits; ctxt.exec resumes the task with the exit status
ToolExit(i) ==
    /\ pc[i] = "await"
    /\ LET script == IF isfile(fs, cmd[i][4]) THEN ReadFile(fs, cmd[i][4]) ELSE <<>>
       IN  /\ ranScript' = [ranScript EXCEPT ![i] = script]
           /\ \E created \in SUBSET MayCreate(req[i], script) :
                 fs' = WriteAll(fs, created, i)
    /\ \E st \in Statuses : status' = [status EXCEPT ![i] = st]
    /\ pc' = [pc EXCEPT ![i] = "resumed"]
    /\ UNCHANGED <<collectVars, req, cmd, logfile, execCalls, result>>

\* output = [] ... return TaskDataResult(status=status, output=output)
Return(i) ==
    /\ pc[i] = "resumed"
    /\ result' = [result EXCEPT ![i] =
                    [status |-> ResultStatus(status[i]),
                     output |-> Output(req[i], status[i], fs)]]
    /\ pc' = [pc EXCEPT ![i] = "done"]
    /\ UNCHANGED <<collectVars, req, fs, cmd, logfile, execCalls, ranScript, status>>

Next ==
    \/ Synth(1, Requests)
    \/ SynthIce40(1, Requests)
    \/ SynthXilinx(1, Requests)
    \/ SynthLattice(1, Requests)
    \/ SynthGowin(1, Requests)
    \/ FormalPrepare(1, Requests)
    \/ Script(1, Requests)
    \/ Exec(1)
    \/ ToolExit(1)
    \/ Return(1)

Spec == Init /\ [][Next]_vars

NextConc ==
    \E i \in Invs :
        \/ Synth(i, ConcRequests(i))
        \/ SynthIce40(i, ConcRequests(i))
        \/ SynthXilinx(i, ConcRequests(i))
        \/ SynthLattice(i, ConcRequests(i))
        \/ SynthGowin(i, ConcRequests(i))
        \/ FormalPrepare(i, ConcRequests(i))
        \/ Script(i, ConcRequests(i))
        \/ Exec(i)
        \/ ToolExit(i)
        \/ Return(i)

SpecConc == InitConc /\ [][NextConc]_vars

NextCollect == Collect

SpecCollect == InitCollect /\ [][NextCollect]_vars

(***************************************************************************)
(* Properties                                                              *)
(***************************************************************************)
\* the script file task i wrote, as it stands in the filesystem
ScriptFile(i) == CHOOSE f \in fs : f.path = req[i].rundir \o <<ScriptName(req[i].variant)>>

Started(i) == pc[i] # "idle"

RtlTypes == {"verilogSource", "systemVerilogSource"}
IncludeTypes == {"verilogInclude", "systemVerilogInclude"}

\* what one collection contributes to the list `kind`, by the classifier's contract
Part(kind, f) ==
    IF f.type # "std.FileSet" THEN <<>>
    ELSE CASE kind = "sources" ->
                IF f.filetype \in RtlTypes
                THEN [k \in 1..Len(f.files) |->
                        [path |-> join(f.basedir, f.files[k]),
                         is_sv |-> (f.filetype = "systemVerilogSource")]]
                ELSE <<>>
           [] kind = "incdirs" ->
                IF f.filetype \in RtlTypes \cup IncludeTypes
                THEN [k \in 1..Len(f.incdirs) |-> join(f.basedir, f.incdirs[k])]
                ELSE IF f.filetype = "verilogIncDir" /\ ~StripIsEmpty(f.basedir)
                THEN <<f.basedir>>
                ELSE <<>>
           [] kind = "libs" ->
                IF f.filetype # "libertyLib" THEN <<>>
                ELSE IF f.files # <<>>
                THEN [k \in 1..Len(f.files) |-> join(f.basedir, f.files[k])]
                ELSE IF ~StripIsEmpty(f.basedir) THEN <<f.basedir>>
                ELSE <<>>

RECURSIVE Cat(_, _)
\* the contributions of the collections, concatenated in input order
Cat(kind, ins) ==
    IF ins = <<>> THEN <<>> ELSE Part(kind, Head(ins)) \o Cat(kind, Tail(ins))

\* C8: each of the three lists _collect_rtl returns is the order-preserving
\* concatenation of the recognized collections' contributions, duplicates kept;
\* collections of another type or filetype contribute nothing; an include-dir
\* marker and a library collection without member files contribute their base
\* directory only when it is not blank.
C8_CollectIsConcatenation ==
    collected.done =>
        /\ collected.sources = Cat("sources", inputs)
        /\ collected.incdirs = Cat("incdirs", inputs)
        /\ collected.liberty_files = Cat("libs", inputs)

\* two collections classified, a duplicate include directory kept, and a
\* collection of a foreign type that contributed nothing
C8_Witness ==
    /\ collected.done
    /\ Len(inputs) = 2
    /\ \E a, b \in 1..Len(collected.incdirs) : a < b /\ collected.incdirs[a] = collected.incdirs[b]
    /\ \E k \in 1..2 : inputs[k].type # "std.FileSet"

HeadIs(d, name) == d.words[1] = name

GenericWriters == {"json", "verilog", "blif", "edif", "rtlil"}

\* C10: the generic script is: include directives, read directives, one
\* read_liberty per library, one synth, dfflibmap and abc on the first library iff
\* a library exists, opt_clean, one stat (on the first library iff one exists),
\* one write directive for json/verilog/blif/edif/rtlil and none otherwise, then
\* the caller's lines verbatim.
C10_GenericScriptShape ==
    (Started(1) /\ req[1].variant = "Synth") =>
        LET s == ScriptFile(1).content
            c == _collect_rtl(req[1].inputs)
            fmt == IF req[1].params.output_format = "" THEN "json"
                   ELSE req[1].params.output_format
            args == req[1].params.args
            ni == Len(c.incdirs)
            nr == ni + Len(c.sources)
            nl == nr + Len(c.liberty_files)
            hasLib == c.liberty_files # <<>>
            nm == nl + 1 + (IF hasLib THEN 2 ELSE 0)
            nw == nm + 2 + (IF fmt \in GenericWriters THEN 1 ELSE 0)
        IN  /\ Len(s) = nw + Len(args)
            /\ \A k \in 1..ni :
                  s[k] = D(<<"read_verilog", "-incdir">>, c.incdirs[k])
            /\ \A k \in 1..Len(c.sources) :
                  /\ HeadIs(s[ni + k], "read_verilog")
                  /\ s[ni + k].path = c.sources[k].path
                  /\ s[ni + k].words =
                        IF c.sources[k].is_sv THEN <<"read_verilog", "-sv">>
                        ELSE <<"read_verilog">>
            /\ \A k \in 1..Len(c.liberty_files) :
                  s[nr + k] = D(<<"read_liberty", "-lib">>, c.liberty_files[k])
            /\ HeadIs(s[nl + 1], "synth") /\ s[nl + 1].path = NoPath
            /\ Cardinality({k \in 1..nw : HeadIs(s[k], "synth")}) = 1
            /\ hasLib =>
                  /\ s[nl + 2] = D(<<"dfflibmap", "-liberty">>, c.liberty_files[1])
                  /\ s[nl + 3] = D(<<"abc", "-liberty">>, c.liberty_files[1])
            /\ ~hasLib => \A k \in 1..nw : ~HeadIs(s[k], "dfflibmap") /\ ~HeadIs(s[k], "abc")
            /\ s[nm + 1] = D(<<"opt_clean">>, NoPath)
            /\ s[nm + 2] = IF hasLib THEN D(<<"stat", "-liberty">>, c.liberty_files[1])
                           ELSE D(<<"stat">>, NoPath)
            /\ Cardinality({k \in 1..nw : HeadIs(s[k], "stat")}) = 1
            /\ fmt \in GenericWriters =>
                  s[nw] = D(<<"write_" \o fmt>>, req[1].rundir \o <<"netlist." \o fmt>>)
            /\ \A k \in 1..Len(args) : s[nw + k] = D(<<args[k]>>, NoPath)

\* a generic script with no source at all, two libraries and a caller's line
C10_Witness ==
    /\ Started(1) /\ req[1].variant = "Synth"
    /\ _collect_rtl(req[1].inputs).sources = <<>>
    /\ Len(_collect_rtl(req[1].inputs).liberty_files) >= 2
    /\ req[1].params.args # <<>>

\* the flag table of each variant: the flag, and whether its parameter is truthy
FlagTable(input) ==
    LET p == input.params IN
    CASE input.variant = "Synth" ->
            << <<"-top", p.top # "">>, <<"-flatten", p.flatten>>, <<"-nofsm", p.nofsm>>,
               <<"-noabc", p.noabc>>, <<"-retime", p.retime>> >>
      [] input.variant = "SynthIce40" ->
            << <<"-top", p.top # "">>, <<"-dff", p.dff>>, <<"-retime", p.retime>>,
               <<"-nocarry", p.nocarry>>, <<"-nobram", p.nobram>>, <<"-dsp", p.dsp>>,
               <<"-abc9", p.abc9>> >>
      [] input.variant = "SynthXilinx" ->
            << <<"-top", p.top # "">>, <<"-flatten", p.flatten>>, <<"-dff", p.dff>>,
               <<"-retime", p.retime>>, <<"-nobram", p.nobram>>, <<"-nodsp", p.nodsp>>,
               <<"-noiopad", p.noiopad>>, <<"-noclkbuf", p.noclkbuf>>,
               <<"-abc9", p.abc9>> >>
      [] input.variant = "SynthLattice" ->
            << <<"-top", p.top # "">>, <<"-dff", p.dff>>, <<"-retime", p.retime>> >>
      [] input.variant = "SynthGowin" -> << <<"-top", p.top # "">> >>
      [] input.variant = "FormalPrepare" ->
            << <<"-bv", p.bv>>, <<"-mem", p.mem>>, <<"-wires", p.wires>> >>
      [] OTHER -> <<>>

\* the command that carries the variant's flags
FlagCmd(variant) ==
    CASE variant = "Synth" -> "synth"
      [] variant = "SynthIce40" -> "synth_ice40"
      [] variant = "SynthXilinx" -> "synth_xilinx"
      [] variant = "SynthLattice" -> "synth_lattice"
      [] variant = "SynthGowin" -> "synth_gowin"
      [] variant = "FormalPrepare" -> "write_smt2"
      [] OTHER -> "none"

\* the first line of the script that runs the command
FlagLine(script, name) ==
    script[CHOOSE k \in 1..Len(script) :
                /\ HeadIs(script[k], name)
                /\ \A j \in 1..(k - 1) : ~HeadIs(script[j], name)]

\* C7: each optional flag of a variant's table is on the variant's synthesis (or
\* write_smt2) directive iff its parameter is truthy, and the flags present
\* stand in the table's order.
C7_FlagsIffTruthyInOrder ==
    (Started(1) /\ req[1].variant # "Script") =>
        LET table == FlagTable(req[1])
            names == {table[k][1] : k \in 1..Len(table)}
            IsFlag(w) == w \in names
            IsOn(e) == e[2]
            on == SelectSeq(table, IsOn)
            line == FlagLine(ScriptFile(1).content, FlagCmd(req[1].variant))
        IN  SelectSeq(line.words, IsFlag) = [k \in 1..Len(on) |-> on[k][1]]

\* a script whose directive carries some flags of its table and lacks others
C7_Witness ==
    /\ Started(1) /\ req[1].variant = "SynthXilinx"
    /\ req[1].params.top = "" /\ req[1].params.noiopad /\ ~req[1].params.noclkbuf
    /\ req[1].params.abc9 /\ ~req[1].params.flatten

\* a path that is absolute or stands under a directory
Resolved(p) == IsAbs(p) \/ Len(p) >= 2

\* C9: every line of a generated script that names a path names an absolute or
\* base-directory-resolved one, never a bare relative one.
C9_NoBareRelativePath ==
    Started(1) =>
        \A k \in 1..Len(ScriptFile(1).content) :
            ScriptFile(1).content[k].path # NoPath => Resolved(ScriptFile(1).content[k].path)

Done(i) == pc[i] = "done"

\* the variant looks for an output file
HasPredicted(input) ==
    input.variant \in Variants
    /\ (input.variant = "Script" => input.params.output_format # "")

\* the output file's name: netlist.<format>, or model.smt2
PredictedName(input) ==
    IF input.variant = "FormalPrepare" THEN "model.smt2"
    ELSE IF input.params.output_format = "" THEN "netlist.json"
    ELSE "netlist." \o input.params.output_format

\* the predicted file exists in the run directory
PredictedExists(input) ==
    \E f \in fs : f.path = input.rundir \o <<PredictedName(input)>>

\* C1: the output list holds exactly one artifact, of files [predicted name] and
\* basedir the run directory, iff status is 0 and the predicted file exists in the
\* run directory; otherwise it is empty.
C1_ArtifactIffSuccessAndFile ==
    (Done(1) /\ HasPredicted(req[1])) =>
        IF status[1] = 0 /\ PredictedExists(req[1])
        THEN /\ Len(result[1].output) = 1
             /\ result[1].output[1].files = <<PredictedName(req[1])>>
             /\ result[1].output[1].basedir = req[1].rundir
        ELSE result[1].output = <<>>

\* a task that returned an artifact, and the file it names exists
C1_Witness ==
    /\ Done(1) /\ HasPredicted(req[1])
    /\ status[1] = 0 /\ PredictedExists(req[1])
    /\ Len(result[1].output) = 1

\* C2: the result's status is the value ctxt.exec returned; a nonzero exit gives
\* an empty output whatever files exist, and a zero exit without the predicted
\* file gives status 0 and an empty output.
C2_StatusPassedThrough ==
    Done(1) =>
        /\ result[1].status = status[1]
        /\ execCalls[1] = 1
        /\ status[1] # 0 => result[1].output = <<>>
        /\ (status[1] = 0 /\ HasPredicted(req[1]) /\ ~PredictedExists(req[1])) =>
              (result[1].status = 0 /\ result[1].output = <<>>)

\* a run that exited 2 although its output file exists
C2_Witness ==
    /\ Done(1) /\ status[1] = 2 /\ result[1].status = 2
    /\ HasPredicted(req[1]) /\ PredictedExists(req[1])
    /\ result[1].output = <<>>

\* the log file name of each variant
VariantLog(variant) ==
    IF variant = "FormalPrepare" THEN "formal.log"
    ELSE IF variant = "Script" THEN "script.log"
    ELSE "synth.log"

\* C3: the script is completely written and closed before ctxt.exec starts; exec
\* has returned its status before the output file is tested and the result built;
\* the command vector is [yosys, -l, <log name>, <script path>] with the path of
\* the script just written; exec is called once, whatever the status.
C3_ThreePhasesInOrder ==
    /\ execCalls[1] <= 1
    /\ pc[1] \in {"idle", "written"} =>
          execCalls[1] = 0 /\ status[1] = -1 /\ result[1] = NoResult
    /\ pc[1] \in {"await", "resumed", "done"} =>
          /\ execCalls[1] = 1
          /\ Len(cmd[1]) = 4
          /\ cmd[1][1] = <<"yosys">> /\ cmd[1][2] = <<"-l">>
          /\ cmd[1][3] = <<VariantLog(req[1].variant)>>
          /\ \E f \in fs : /\ f.path = cmd[1][4]
                           /\ f.writer = 1
                           /\ f.content = ScriptOf(req[1])
    /\ pc[1] = "await" => status[1] = -1 /\ result[1] = NoResult
    /\ pc[1] = "resumed" => status[1] \in Statuses /\ result[1] = NoResult
    /\ pc[1] = "done" => status[1] \in Statuses /\ result[1] # NoResult

\* a run that failed and was not run again
C3_Witness == Done(1) /\ status[1] # 0 /\ execCalls[1] = 1 /\ result[1].status # 0

TargetFamilies == {"SynthIce40", "SynthXilinx", "SynthLattice", "SynthGowin"}

\* the formats each family's synthesis command can write
Supported(variant) ==
    CASE variant = "SynthIce40" -> {"json", "blif", "edif"}
      [] variant = "SynthXilinx" -> {"json", "edif", "blif"}
      [] variant = "SynthLattice" -> {"json", "edif"}
      [] variant = "SynthGowin" -> {"json", "verilog"}

\* a target-family task asked for a format its family cannot write
Unsupported(input) ==
    /\ input.variant \in TargetFamilies
    /\ input.params.output_format # ""
    /\ input.params.output_format \notin Supported(input.variant)

WriteFlags == {"-json", "-blif", "-edif", "-vout", "-verilog", "-rtlil"}

\* the synthesis directive of the script carries no write flag and no path
NoEmbeddedWrite(i) ==
    LET line == FlagLine(ScriptFile(i).content, FlagCmd(req[i].variant))
    IN  line.path = NoPath /\ \A k \in 1..Len(line.words) : line.words[k] \notin WriteFlags

\* C4 as stated: with an unsupported format the synthesis directive carries no
\* write flag and no artifact is produced, for every status and every state of
\* the run directory.
C4_UnsupportedNeverProduces ==
    (Done(1) /\ Unsupported(req[1])) =>
        (NoEmbeddedWrite(1) /\ result[1].output = <<>>)

\* C4 as amended: with an unsupported format the synthesis directive carries no
\* write flag, and an artifact is produced iff the status is 0 and a file named
\* netlist.<format> exists in the run directory.
C4_UnsupportedNoFlagArtifactIffFile ==
    (Started(1) /\ Unsupported(req[1])) =>
        /\ NoEmbeddedWrite(1)
        /\ Done(1) =>
              (result[1].output # <<>> <=> (status[1] = 0 /\ PredictedExists(req[1])))

\* an unsupported format, and yet an artifact
C4_Witness == Done(1) /\ Unsupported(req[1]) /\ result[1].output # <<>>

\* the target and family/device tags of each variant
VariantTags(input) ==
    LET p == input.params IN
    CASE input.variant = "SynthIce40" ->
            <<"target=ice40", "device=" \o (IF p.device = "" THEN "hx" ELSE p.device)>>
      [] input.variant = "SynthXilinx" ->
            <<"target=xilinx", "family=" \o (IF p.family = "" THEN "xc7" ELSE p.family)>>
      [] input.variant = "SynthLattice" ->
            <<"target=lattice", "family=" \o (IF p.family = "" THEN "ecp5" ELSE p.family)>>
      [] input.variant = "SynthGowin" -> <<"target=gowin">>
      [] OTHER -> <<>>

FormatTag(input) ==
    "format=" \o (IF input.params.output_format = "" THEN "json"
                  ELSE input.params.output_format)

\* the attributes list is: format tag, the variant's tags, top tag iff top is set
FormatFirst(input, attrs) ==
    LET tags == VariantTags(input)
        hasTop == input.params.top # ""
    IN  /\ Len(attrs) = 1 + Len(tags) + (IF hasTop THEN 1 ELSE 0)
        /\ attrs[1] = FormatTag(input)
        /\ \A k \in 1..Len(tags) : attrs[1 + k] = tags[k]
        /\ hasTop => attrs[Len(attrs)] = "top=" \o input.params.top

\* C5 as stated: every artifact's attributes are the format tag first, then the
\* variant's tags, then the top tag iff a top module was given.
C5_FormatTagAlwaysFirst ==
    (Done(1) /\ result[1].output # <<>>) =>
        /\ result[1].output[1].attributes # <<>>
        /\ IF req[1].variant = "FormalPrepare"
           THEN \E fmt \in {"smt2", "json"} :
                    result[1].output[1].attributes[1] = "format=" \o fmt
           ELSE FormatFirst(req[1], result[1].output[1].attributes)

\* C5 as amended: that order holds for the generic, the four target-family and
\* the raw-script variants; the formal variant's attributes carry no format tag:
\* they are the top tag alone if a top module was given, and empty otherwise.
C5_FormatFirstExceptFormal ==
    (Done(1) /\ result[1].output # <<>>) =>
        IF req[1].variant = "FormalPrepare"
        THEN result[1].output[1].attributes =
                (IF req[1].params.top # "" THEN <<"top=" \o req[1].params.top>> ELSE <<>>)
        ELSE FormatFirst(req[1], result[1].output[1].attributes)

\* the formal variant returned an artifact
C5_Witness ==
    /\ Done(1) /\ result[1].output # <<>>
    /\ req[1].variant = "FormalPrepare"

\* path p lies under directory dir
Under(dir, p) == Len(p) > Len(dir) /\ SubSeq(p, 1, Len(dir)) = dir

Launched(i) == pc[i] \in {"await", "resumed", "done"}

\* the paths task i names for its script and its output
ScriptAndOutputPaths(i) ==
    {cmd[i][4]}
    \cup WriteTargets(ScriptFile(i).content)
    \cup {result[i].output[k].basedir \o result[i].output[k].files
            : k \in 1..Len(result[i].output)}

\* C6 as stated: of two tasks run side by side in distinct run directories, each
\* names its script, its log and its output under its own run directory, so the
\* two never name the same path.
C6_AllPathsUnderOwnRunDir ==
    /\ \A i \in Invs : Launched(i) =>
          /\ \A p \in ScriptAndOutputPaths(i) : Under(req[i].rundir, p)
          /\ Under(req[i].rundir, cmd[i][3])
          /\ Under(req[i].rundir, logfile[i])
    /\ \A i, j \in Invs : (i # j /\ Launched(i) /\ Launched(j)) =>
          (ScriptAndOutputPaths(i) \cup {cmd[i][3]})
            \cap (ScriptAndOutputPaths(j) \cup {cmd[j][3]}) = {}

\* C6 as amended: each task names its script and its output under its own run
\* directory, so the two never name the same script or output path, each tool run
\* reads the script its own task wrote and each task finds only a file its own run
\* wrote; the log is named by the bare file name synth.log, formal.log or
\* script.log, which is no path under the run directory.
C6_ScriptAndOutputUnderOwnRunDir ==
    /\ \A i \in Invs : Launched(i) =>
          /\ Under(req[i].rundir, cmd[i][4])
          /\ \E f \in fs : f.path = cmd[i][4] /\ f.writer = i
          /\ \A p \in ScriptAndOutputPaths(i) : Under(req[i].rundir, p)
          /\ cmd[i][3] = <<VariantLog(req[i].variant)>>
          /\ logfile[i] = <<VariantLog(req[i].variant)>>
          /\ pc[i] \in {"resumed", "done"} => ranScript[i] = ScriptFile(i).content
          /\ \A k \in 1..Len(result[i].output) :
                \E f \in fs : /\ f.path = result[i].output[k].basedir
                                            \o result[i].output[k].files
                              /\ f.writer = i
    /\ \A i, j \in Invs : (i # j /\ Launched(i) /\ Launched(j)) =>
          ScriptAndOutputPaths(i) \cap ScriptAndOutputPaths(j) = {}
    /\ \A f \in fs : f.writer \in Invs /\ Under(req[f.writer].rundir, f.path)

\* two finished tasks, one run directory inside the other's, each with its
\* artifact, both having named the same log
C6_Witness ==
    /\ Done(1) /\ Done(2)
    /\ result[1].output # <<>> /\ result[2].output # <<>>
    /\ Under(req[1].rundir, req[2].rundir)
    /\ cmd[1][3] = cmd[2][3]

====
